---- MODULE Spec2Model ----
(***************************************************************************)
(* Model of the DDS converter:                                             *)
(*   - the batch run of main (src/main.rs) over process_file               *)
(*     (src/processor.rs), gated by a tokio Semaphore;                     *)
(*   - calculate_output_path (src/processor.rs);                           *)
(*   - find_image_sequences (src/animation.rs).                            *)
(* Strings are sequences of one-character strings; a path is a sequence    *)
(* of components, each component a string.                                 *)
(***************************************************************************)
EXTENDS Integers, Sequences, FiniteSets, TLC

VARIABLES
  \* ---- batch run (main) ----
  continue_on_error,  \* cli.continue_on_error
  concurrency,        \* cli.concurrency
  nfiles,             \* dds_files.len()
  permits,            \* permits available in the semaphore
  next_file,          \* index of the file the spawn loop is about to admit
  tasks,              \* tasks[i]: "pending" | "spawned" | "running" | "finished"
  outcome,            \* outcome[i]: what process_file did for file i
  awaiting,           \* index of the task the await loop is waiting for
  error_count,        \* error_count of main
  progress,           \* position of the progress bar
  pc,                 \* "idle" | "spawn" | "await" | "ok" | "failed"
  run_err,            \* index of the file whose error main returned (0: none)
  first_err,          \* history: index of the first file whose process_file returned Err (0: none)
  \* ---- path resolver ----
  pr_in,              \* arguments of calculate_output_path
  pr_out,             \* its result
  pr_pc,              \* "idle" | "call" | "done"
  \* ---- sequence detector ----
  dir,                \* file names in input_dir
  files,              \* the sorted candidate list
  groups,             \* base name -> list of files
  sequences,          \* the sequences pushed so far
  sq_pc,              \* "idle" | "scan" | "group" | "emit" | "done"
  \* ---- sprite descriptor parser ----
  sp_doc,             \* the lines of the descriptor
  sp_next,            \* index of the line the parser reads next
  sp_cells,           \* the cells pushed so far
  sp_pc,              \* "idle" | "lines" | "ok" | "err"
  \* ---- sprite sheet pipeline and assembler ----
  an_in,              \* the extracted frames, the format and the environment
  an_frames,          \* the frame list: frame numbers in order
  an_out,             \* result of the assembler
  an_pc,              \* "idle" | "extracted" | "assemble" | "ok" | "err"
  \* ---- animation mode ----
  am_in,              \* the items found in the directory and the format
  am_next,            \* index of the item the loop processes next
  am_log,             \* what was done for each item processed so far
  am_pc               \* "idle" | "loop" | "ok" | "err"

batchVars == <<continue_on_error, concurrency, nfiles, permits, next_file, tasks,
               outcome, awaiting, error_count, progress, pc, run_err, first_err>>
pathVars == <<pr_in, pr_out, pr_pc>>
seqVars == <<dir, files, groups, sequences, sq_pc>>
spriteVars == <<sp_doc, sp_next, sp_cells, sp_pc>>
sheetVars == <<an_in, an_frames, an_out, an_pc>>
modeVars == <<am_in, am_next, am_log, am_pc>>
animVars == <<spriteVars, sheetVars, modeVars>>
vars == <<batchVars, pathVars, seqVars, animVars>>

-----------------------------------------------------------------------------
(* Bounds *)

MaxFiles == 4
MaxConcurrency == 2
MaxPathLen == 4
MaxStrip == 5
MaxStemLen == 2
MaxDirFiles == 3
MaxLines == 2
MaxFrames == 25
MaxPixels == 20
MaxItems == 3
MaxFilesLive == 3

(* Program constants *)

MinFileSize == 128
BlankFrameCount == 24
ChannelThreshold == 10
F32_0_95 == 15938355

-----------------------------------------------------------------------------
(* Strings and std::path *)

None == <<>>
Some(x) == <<x>>

Range(s) == {s[i] : i \in 1..Len(s)}

IsPrefixOf(p, s) == Len(p) <= Len(s) /\ \A i \in 1..Len(p) : p[i] = s[i]

\* Index of the last occurrence of ch in s, 0 when there is none (str::rfind).
LastIndexOf(s, ch) ==
  LET I == {i \in 1..Len(s) : s[i] = ch} IN
  IF I = {} THEN 0 ELSE CHOOSE i \in I : \A j \in I : j <= i

\* Path::file_stem of a file name: the part before the last dot, the whole
\* name when there is no dot or the only dot is the first character.
FileStem(name) ==
  LET d == LastIndexOf(name, ".") IN
  IF d <= 1 THEN name ELSE SubSeq(name, 1, d - 1)

\* Path::extension of a file name: the part after the last dot, None when
\* there is no dot or the only dot is the first character.
Extension(name) ==
  LET d == LastIndexOf(name, ".") IN
  IF d <= 1 THEN None ELSE Some(SubSeq(name, d + 1, Len(name)))

\* Path components: the root directory, the parent directory, normal names.
RootDir == <<"/">>
ParentDir == <<".", ".">>
IsNormal(c) == c # RootDir /\ c # ParentDir

\* Path::strip_prefix: Some(rest) when base's components start the path.
StripPrefix(path, base) ==
  IF IsPrefixOf(base, path)
    THEN Some(SubSeq(path, Len(base) + 1, Len(path)))
    ELSE None

\* PathBuf::push: an absolute component replaces the path built so far.
Push(path, component) ==
  IF component = RootDir THEN <<component>> ELSE Append(path, component)

RECURSIVE PushAll(_, _)
PushAll(path, components) ==
  IF components = <<>> THEN path
  ELSE PushAll(Push(path, Head(components)), Tail(components))

\* Path::with_extension: replaces the extension of the file name; a path
\* without a file name (empty, or ending in .. or /) is returned unchanged.
WithExtension(path, ext) ==
  IF path = <<>> \/ ~IsNormal(path[Len(path)]) THEN path
  ELSE [path EXCEPT ![Len(path)] =
          FileStem(@) \o (IF ext = <<>> THEN <<>> ELSE <<".">> \o ext)]

-----------------------------------------------------------------------------
(* calculate_output_path *)

\* The components kept after strip_segments.
ComponentsToUse_KeepLast(path_components, strip_segments) ==
  IF strip_segments < Len(path_components)
    THEN SubSeq(path_components, strip_segments + 1, Len(path_components))
    ELSE IF path_components = <<>> THEN <<>>
         ELSE <<path_components[Len(path_components)]>>
ComponentsToUse(path_components, strip_segments) ==
  IF strip_segments < Len(path_components)
    THEN SubSeq(path_components, strip_segments + 1, Len(path_components))
    ELSE path_components

CalculateOutputPath(input_path, input_dir, output_dir, strip_segments, format) ==
  LET stripped == StripPrefix(input_path, input_dir)
      relative_path == IF stripped = None THEN input_path ELSE stripped[1]
      components_to_use == ComponentsToUse(relative_path, strip_segments)
      result_path == PushAll(output_dir, components_to_use)
  IN WithExtension(result_path, format)

Str_a == <<"a">>
Str_b == <<"b">>
Str_c == <<"c">>
Str_out == <<"o", "u", "t">>
Str_png == <<"p", "n", "g">>
Str_tga == <<"t", "g", "a">>
Str_tex_dds == <<"t", "e", "x", ".", "d", "d", "s">>
Str_tex_png == <<"t", "e", "x", ".", "p", "n", "g">>

PathNames == {Str_a, Str_b, Str_c, Str_tex_dds, ParentDir}
RelativePaths == UNION {[1..k -> PathNames] : k \in 1..MaxPathLen}
InputPaths == RelativePaths \cup {<<RootDir>> \o p : p \in RelativePaths}
InputRoots == {<<Str_a>>, <<Str_a, Str_b>>, <<RootDir, Str_a>>}
OutputRoots == {<<Str_out>>, <<Str_out, Str_a>>}
Formats == {Str_png, Str_tga}

-----------------------------------------------------------------------------
(* Batch run: main and process_file *)

NoOutcome == [size |-> 0, kind |-> "none", dir_created |-> FALSE,
              tool_invoked |-> FALSE, ret |-> "none"]

\* File sizes on both sides of the threshold.
FileSizes == {MinFileSize - 1, MinFileSize}

\* metadata.len() < 128
TooSmall_Le(len) == len <= MinFileSize
TooSmall(len) == len < MinFileSize

\* The result of a failed tool run: Ok when continue_on_error, else the error.
ToolFailureResult(coe) == IF coe THEN "Ok" ELSE "Err"

\* process_file for a file of size len, where the environment decides whether
\* the metadata can be read, the output directory can be created, the tool
\* can be launched, and whether it exits with status 0.
ProcessFile(len, meta_ok, mkdir_ok, launch_ok, exit_ok, coe) ==
  IF ~meta_ok THEN
    [size |-> len, kind |-> "MetaErr", dir_created |-> FALSE,
     tool_invoked |-> FALSE, ret |-> "Err"]
  ELSE IF TooSmall(len) THEN
    [size |-> len, kind |-> "Skipped", dir_created |-> FALSE,
     tool_invoked |-> FALSE, ret |-> "Ok"]
  ELSE IF ~mkdir_ok THEN
    [size |-> len, kind |-> "MkdirErr", dir_created |-> FALSE,
     tool_invoked |-> FALSE, ret |-> "Err"]
  ELSE IF ~launch_ok THEN
    [size |-> len, kind |-> "LaunchErr", dir_created |-> TRUE,
     tool_invoked |-> FALSE, ret |-> "Err"]
  ELSE IF ~exit_ok THEN
    [size |-> len, kind |-> "ToolFailed", dir_created |-> TRUE,
     tool_invoked |-> TRUE, ret |-> ToolFailureResult(coe)]
  ELSE
    [size |-> len, kind |-> "Converted", dir_created |-> TRUE,
     tool_invoked |-> TRUE, ret |-> "Ok"]

\* Everything process_file can do for one file, over all environments.
ProcessFileOutcomes(coe) ==
  {ProcessFile(len, meta_ok, mkdir_ok, launch_ok, exit_ok, coe) :
     len \in FileSizes, meta_ok \in BOOLEAN, mkdir_ok \in BOOLEAN,
     launch_ok \in BOOLEAN, exit_ok \in BOOLEAN}

\* semaphore.acquire_owned() completes only when a permit is available.
PermitAvailable_NoGate == TRUE
PermitAvailable == permits > 0

\* Semaphore::new(cli.concurrency)
InitialPermits_OneShort(c) == c - 1
InitialPermits(c) == c

\* The task owns its permit (_permit); dropping it at the end of the task
\* gives it back whatever process_file returned.
ReleasePermit_OnlyOnOk(p, ret) == IF ret = "Err" THEN p ELSE p + 1
ReleasePermit(p, ret) == p + 1

\* The error main returns when the awaited task i yielded Err.
ReturnedError_FirstInTime(i) == first_err
ReturnedError(i) == i

InitPathIdle == pr_in = <<>> /\ pr_out = <<>> /\ pr_pc = "idle"
InitSeqIdle ==
  dir = {} /\ files = <<>> /\ groups = <<>> /\ sequences = <<>> /\ sq_pc = "idle"
InitSpriteIdle == sp_doc = <<>> /\ sp_next = 0 /\ sp_cells = <<>> /\ sp_pc = "idle"
InitSheetIdle == an_in = <<>> /\ an_frames = <<>> /\ an_out = <<>> /\ an_pc = "idle"
InitModeIdle == am_in = <<>> /\ am_next = 0 /\ am_log = <<>> /\ am_pc = "idle"
InitAnimIdle == InitSpriteIdle /\ InitSheetIdle /\ InitModeIdle
InitBatchIdle ==
  /\ continue_on_error = FALSE /\ concurrency = 1 /\ nfiles = 0 /\ permits = 0
  /\ next_file = 0 /\ tasks = <<>> /\ outcome = <<>> /\ awaiting = 0
  /\ error_count = 0 /\ progress = 0 /\ pc = "idle" /\ run_err = 0 /\ first_err = 0

InitBatch ==
  /\ continue_on_error \in BOOLEAN
  /\ concurrency \in 1..MaxConcurrency
  /\ nfiles \in 1..MaxFiles
  /\ permits = InitialPermits(concurrency)
  /\ next_file = 1
  /\ tasks = [i \in 1..nfiles |-> "pending"]
  /\ outcome = [i \in 1..nfiles |-> NoOutcome]
  /\ awaiting = 1
  /\ error_count = 0
  /\ progress = 0
  /\ pc = "spawn"
  /\ run_err = 0
  /\ first_err = 0
  /\ InitPathIdle
  /\ InitSeqIdle
  /\ InitAnimIdle

\* One iteration of the spawn loop: acquire a permit and spawn the task.
Admit ==
  /\ pc = "spawn"
  /\ next_file <= nfiles
  /\ PermitAvailable
  /\ permits' = permits - 1
  /\ tasks' = [tasks EXCEPT ![next_file] = "spawned"]
  /\ next_file' = next_file + 1
  /\ pc' = IF next_file = nfiles THEN "await" ELSE "spawn"
  /\ UNCHANGED <<continue_on_error, concurrency, nfiles, outcome, awaiting,
                 error_count, progress, run_err, first_err>>
  /\ UNCHANGED <<pathVars, seqVars, animVars>>

\* The runtime polls a spawned task: process_file starts.
TaskStart(i) ==
  /\ pc \in {"spawn", "await"}
  /\ tasks[i] = "spawned"
  /\ tasks' = [tasks EXCEPT ![i] = "running"]
  /\ UNCHANGED <<continue_on_error, concurrency, nfiles, permits, next_file,
                 outcome, awaiting, error_count, progress, pc, run_err, first_err>>
  /\ UNCHANGED <<pathVars, seqVars, animVars>>

\* process_file returns; the task increments the progress bar, yields the
\* result and drops its permit.
TaskFinish(i) ==
  /\ pc \in {"spawn", "await"}
  /\ tasks[i] = "running"
  /\ \E r \in ProcessFileOutcomes(continue_on_error) :
       /\ outcome' = [outcome EXCEPT ![i] = r]
       /\ first_err' = IF r.ret = "Err" /\ first_err = 0 THEN i ELSE first_err
       /\ permits' = ReleasePermit(permits, r.ret)
  /\ tasks' = [tasks EXCEPT ![i] = "finished"]
  /\ progress' = progress + 1
  /\ UNCHANGED <<continue_on_error, concurrency, nfiles, next_file, awaiting,
                 error_count, pc, run_err>>
  /\ UNCHANGED <<pathVars, seqVars, animVars>>

\* One iteration of the await loop, on a task whose result is Ok.
AwaitOk ==
  /\ pc = "await"
  /\ awaiting <= nfiles
  /\ tasks[awaiting] = "finished"
  /\ outcome[awaiting].ret = "Ok"
  /\ awaiting' = awaiting + 1
  /\ UNCHANGED <<continue_on_error, concurrency, nfiles, permits, next_file,
                 tasks, outcome, error_count, progress, pc, run_err, first_err>>
  /\ UNCHANGED <<pathVars, seqVars, animVars>>

\* One iteration of the await loop, on a task whose result is Err.
AwaitErr ==
  /\ pc = "await"
  /\ awaiting <= nfiles
  /\ tasks[awaiting] = "finished"
  /\ outcome[awaiting].ret = "Err"
  /\ error_count' = error_count + 1
  /\ IF ~continue_on_error
       THEN /\ pc' = "failed"
            /\ run_err' = ReturnedError(awaiting)
            /\ UNCHANGED awaiting
       ELSE /\ awaiting' = awaiting + 1
            /\ UNCHANGED <<pc, run_err>>
  /\ UNCHANGED <<continue_on_error, concurrency, nfiles, permits, next_file,
                 tasks, outcome, progress, first_err>>
  /\ UNCHANGED <<pathVars, seqVars, animVars>>

\* All tasks awaited: main prints the summary and returns Ok(()).
MainReturnOk ==
  /\ pc = "await"
  /\ awaiting > nfiles
  /\ pc' = "ok"
  /\ UNCHANGED <<continue_on_error, concurrency, nfiles, permits, next_file,
                 tasks, outcome, awaiting, error_count, progress, run_err, first_err>>
  /\ UNCHANGED <<pathVars, seqVars, animVars>>

NextBatch ==
  \/ Admit
  \/ \E i \in 1..nfiles : TaskStart(i)
  \/ \E i \in 1..nfiles : TaskFinish(i)
  \/ AwaitOk
  \/ AwaitErr
  \/ MainReturnOk

SpecBatch == InitBatch /\ [][NextBatch]_vars

\* The runtime keeps polling main and the spawned tasks, and every call of
\* process_file returns: while some step of the batch run is possible, one
\* is eventually taken.
InitBatchLive == InitBatch /\ nfiles <= MaxFilesLive

SpecBatchFair == InitBatchLive /\ [][NextBatch]_vars /\ WF_vars(NextBatch)

-----------------------------------------------------------------------------
(* calculate_output_path as a state machine *)

InitPath ==
  /\ pr_in \in [input_path : InputPaths, input_dir : InputRoots,
                output_dir : OutputRoots, strip_segments : 0..MaxStrip,
                format : Formats]
  /\ pr_out = <<>>
  /\ pr_pc = "call"
  /\ InitBatchIdle
  /\ InitSeqIdle
  /\ InitAnimIdle

CalculateOutputPathCall ==
  /\ pr_pc = "call"
  /\ pr_out' = CalculateOutputPath(pr_in.input_path, pr_in.input_dir,
                                   pr_in.output_dir, pr_in.strip_segments,
                                   pr_in.format)
  /\ pr_pc' = "done"
  /\ UNCHANGED pr_in
  /\ UNCHANGED <<batchVars, seqVars, animVars>>

NextPath == CalculateOutputPathCall

SpecPath == InitPath /\ [][NextPath]_vars

-----------------------------------------------------------------------------
(* find_image_sequences *)

\* UTF-8 encoding of the characters used in file names; "U+00E9" is the
\* one character e-acute, two bytes long.
CharBytes(c) ==
  CASE c = "." -> <<46>>
    [] c = "1" -> <<49>>
    [] c = "2" -> <<50>>
    [] c = "9" -> <<57>>
    [] c = "G" -> <<71>>
    [] c = "N" -> <<78>>
    [] c = "P" -> <<80>>
    [] c = "_" -> <<95>>
    [] c = "d" -> <<100>>
    [] c = "f" -> <<102>>
    [] c = "g" -> <<103>>
    [] c = "j" -> <<106>>
    [] c = "n" -> <<110>>
    [] c = "p" -> <<112>>
    [] c = "s" -> <<115>>
    [] c = "t" -> <<116>>
    [] c = "x" -> <<120>>
    [] c = "U+00E9" -> <<195, 169>>

RECURSIVE Bytes(_)
Bytes(s) == IF s = <<>> THEN <<>> ELSE CharBytes(Head(s)) \o Bytes(Tail(s))

\* str::len: the length in bytes.
ByteLen(s) == Len(Bytes(s))

\* Ordering of two paths of one directory: byte-wise on the file names.
PathLess(a, b) ==
  LET x == Bytes(a)
      y == Bytes(b)
  IN \E k \in 1..Len(y) :
       /\ k <= Len(x) + 1
       /\ \A j \in 1..(k - 1) : x[j] = y[j]
       /\ (k = Len(x) + 1 \/ x[k] < y[k])

\* Vec::sort of a list without duplicates.
RECURSIVE SortSet(_)
SortSet(S) ==
  IF S = {} THEN <<>>
  ELSE LET m == CHOOSE x \in S : \A y \in S \ {x} : PathLess(x, y)
       IN <<m>> \o SortSet(S \ {m})

IsAsciiDigit(c) == c \in {"0", "1", "2", "3", "4", "5", "6", "7", "8", "9"}

AllDigits(s) == \A i \in 1..Len(s) : IsAsciiDigit(s[i])

Str_dds == <<"d", "d", "s">>
Str_jpg == <<"j", "p", "g">>
Str_jpeg == <<"j", "p", "e", "g">>
Str_bmp == <<"b", "m", "p">>
Str_txt == <<"t", "x", "t">>
Str_PNG == <<"P", "N", "G">>

ImageExtensions == {Str_png, Str_dds, Str_jpg, Str_jpeg, Str_bmp, Str_tga}

\* The extension filter of the directory scan.
ToLowerChar(c) ==
  CASE c = "P" -> "p" [] c = "N" -> "n" [] c = "G" -> "g" [] OTHER -> c
ToLower(s) == [i \in 1..Len(s) |-> ToLowerChar(s[i])]
IsCandidate_IgnoreCase(name) ==
  LET ext == Extension(name) IN
  ext # None /\ ToLower(ext[1]) \in ImageExtensions
IsCandidate(name) ==
  LET ext == Extension(name) IN
  ext # None /\ ext[1] \in ImageExtensions

\* file_name.chars().nth(n).unwrap_or('a')
CharAtOrA(s, n) == IF n < Len(s) THEN s[n + 1] ELSE "a"

\* The loop that moves base_end left over trailing digits; base_end starts at
\* the length in bytes and indexes characters.
RECURSIVE BaseEnd(_, _)
BaseEnd(file_name, base_end) ==
  IF base_end > 0 /\ IsAsciiDigit(CharAtOrA(file_name, base_end - 1))
    THEN BaseEnd(file_name, base_end - 1)
    ELSE base_end

\* The base name of a file stem.  The slice file_name[..base_end] is taken
\* only when base_end moved, which needs as many characters as bytes, so
\* the byte slice is the character slice.
BaseName(file_name) ==
  LET pos == LastIndexOf(file_name, "_") IN
  IF pos # 0
    THEN IF AllDigits(SubSeq(file_name, pos + 1, Len(file_name)))
           THEN SubSeq(file_name, 1, pos - 1)
           ELSE file_name
    ELSE LET base_end == BaseEnd(file_name, ByteLen(file_name)) IN
         IF base_end < ByteLen(file_name)
           THEN SubSeq(file_name, 1, base_end)
           ELSE file_name

\* group.len() > 1
IsSequence_AtLeastOne(group) == Len(group) >= 1
IsSequence(group) == Len(group) > 1

\* groups.entry(base_name).or_insert_with(Vec::new).push(file)
GroupsPush(g, base_name, file) ==
  IF base_name \in DOMAIN g
    THEN [g EXCEPT ![base_name] = Append(@, file)]
    ELSE [b \in DOMAIN g \cup {base_name} |->
            IF b = base_name THEN <<file>> ELSE g[b]]

NoGroups == [b \in {} |-> <<>>]

\* File names of the scanned directory.
StemAlphabet == {"f", "_", "1"}
Stems == UNION {[1..k -> StemAlphabet] : k \in 1..MaxStemLen}
ExtraNames ==
  { <<"f", "1", "9", ".", "p", "n", "g">>,
    <<"f", "9", ".", "p", "n", "g">>,
    <<"f", "_", "9", ".", "p", "n", "g">>,
    <<"_", "f", "1", ".", "p", "n", "g">>,
    <<"_", "f", "9", ".", "p", "n", "g">>,
    <<"f", "_", "1", ".", "P", "N", "G">>,
    <<"f", "_", "9", ".", "P", "N", "G">>,
    <<"f", "_", "1", ".", "d", "d", "s">>,
    <<"f", "_", "9", ".", "j", "p", "g">>,
    <<"f", "_", "1", ".", "t", "x", "t">>,
    <<"f", "_", "1">>,
    <<".", "p", "n", "g">>,
    <<"g", ".", "p", "n", "g">>,
    <<"U+00E9", "1", ".", "p", "n", "g">>,
    <<"U+00E9", "9", ".", "p", "n", "g">> }
FileNames == {st \o <<".">> \o Str_png : st \in Stems} \cup ExtraNames

RECURSIVE Directories(_)
Directories(n) ==
  IF n = 0 THEN {{}}
  ELSE LET smaller == Directories(n - 1) IN
       smaller \cup {d \cup {f} : d \in smaller, f \in FileNames}

InitSeq ==
  /\ dir \in Directories(MaxDirFiles)
  /\ files = <<>>
  /\ groups = NoGroups
  /\ sequences = <<>>
  /\ sq_pc = "scan"
  /\ InitBatchIdle
  /\ InitPathIdle
  /\ InitAnimIdle

\* read_dir, the extension filter, collect and files.sort().
ScanDir ==
  /\ sq_pc = "scan"
  /\ files' = SortSet({f \in dir : IsCandidate(f)})
  /\ sq_pc' = IF files' = <<>> THEN "emit" ELSE "group"
  /\ UNCHANGED <<dir, groups, sequences>>
  /\ UNCHANGED <<batchVars, pathVars, animVars>>

\* One iteration of the grouping loop.
GroupFile ==
  /\ sq_pc = "group"
  /\ files # <<>>
  /\ LET file == Head(files)
         file_name == FileStem(file)
     IN groups' = GroupsPush(groups, BaseName(file_name), file)
  /\ files' = Tail(files)
  /\ sq_pc' = IF files' = <<>> THEN "emit" ELSE "group"
  /\ UNCHANGED <<dir, sequences>>
  /\ UNCHANGED <<batchVars, pathVars, animVars>>

\* One iteration of the loop over the hash map, whose order is arbitrary.
EmitGroup ==
  /\ sq_pc = "emit"
  /\ \E base_name \in DOMAIN groups :
       LET group == groups[base_name] IN
       /\ sequences' = IF IsSequence(group)
                         THEN Append(sequences, SortSet(Range(group)))
                         ELSE sequences
       /\ groups' = [b \in DOMAIN groups \ {base_name} |-> groups[b]]
  /\ UNCHANGED <<dir, files, sq_pc>>
  /\ UNCHANGED <<batchVars, pathVars, animVars>>

\* Ok(sequences)
ReturnSequences ==
  /\ sq_pc = "emit"
  /\ DOMAIN groups = {}
  /\ sq_pc' = "done"
  /\ UNCHANGED <<dir, files, groups, sequences>>
  /\ UNCHANGED <<batchVars, pathVars, animVars>>

NextSeq == ScanDir \/ GroupFile \/ EmitGroup \/ ReturnSequences

SpecSeq == InitSeq /\ [][NextSeq]_vars

-----------------------------------------------------------------------------
(* SpriteSheet::from_xml_content *)

\* A descriptor line is a record: cell tells whether the trimmed line starts
\* with "<Cell ", attrs lists its name="value" pairs in textual order, each
\* value already split at its commas into fields.

\* str::parse::<f32> of one field.
ParseF32(field) ==
  IF field = "0" THEN Some(0)
  ELSE IF field = "1" THEN Some(1)
  ELSE None

\* parse_coords: exactly two numeric fields, else an error.
ParseCoords(parts) ==
  IF Len(parts) # 2 THEN [err |-> TRUE, val |-> <<>>]
  ELSE IF ParseF32(parts[1]) = None \/ ParseF32(parts[2]) = None
    THEN [err |-> TRUE, val |-> <<>>]
  ELSE [err |-> FALSE, val |-> <<ParseF32(parts[1])[1], ParseF32(parts[2])[1]>>]

\* extract_attribute: the value of the first occurrence of the name.
ExtractAttribute(line, attr_name) ==
  LET I == {i \in 1..Len(line.attrs) : line.attrs[i].name = attr_name} IN
  IF I = {} THEN None
  ELSE Some(line.attrs[CHOOSE i \in I : \A j \in I : i <= j].value)

\* The corner parsed from an attribute: absent, malformed or a pair.
ParseCorner(line, attr_name) ==
  LET a == ExtractAttribute(line, attr_name) IN
  IF a = None THEN [err |-> FALSE, val |-> None]
  ELSE LET c == ParseCoords(a[1]) IN
       IF c.err THEN [err |-> TRUE, val |-> None]
       ELSE [err |-> FALSE, val |-> Some(c.val)]

\* topLeft computed from topRight and bottomLeft.
SynthesizeTopLeft_Swapped(tr, bl) == <<tr[1], bl[2]>>
SynthesizeTopLeft(tr, bl) == <<bl[1], tr[2]>>

\* parse_cell_line: an error, no cell, or a cell.
ParseCellLine(line) ==
  LET tl == ParseCorner(line, "topLeft")
      tr == ParseCorner(line, "topRight")
      bl == ParseCorner(line, "bottomLeft")
      br == ParseCorner(line, "bottomRight")
      top_left == IF tl.val = None /\ tr.val # None /\ bl.val # None
                    THEN Some(SynthesizeTopLeft(tr.val[1], bl.val[1]))
                    ELSE tl.val
  IN IF tl.err \/ tr.err \/ bl.err \/ br.err
       THEN [err |-> TRUE, cell |-> None]
     ELSE IF top_left # None /\ tr.val # None /\ bl.val # None /\ br.val # None
       THEN [err |-> FALSE,
             cell |-> Some([top_left |-> top_left[1], top_right |-> tr.val[1],
                            bottom_left |-> bl.val[1],
                            bottom_right |-> br.val[1]])]
     ELSE [err |-> FALSE, cell |-> None]

\* Descriptor lines: every combination of present, absent and malformed
\* corners, a line that repeats an attribute, and lines that are no cell
\* records.
Attr(n, v) == [name |-> n, value |-> v]
AttrList(n, opt) == IF opt = None THEN <<>> ELSE <<Attr(n, opt[1])>>
CellLine(tl, tr, bl, br) ==
  [cell |-> TRUE,
   attrs |-> AttrList("topLeft", tl) \o AttrList("topRight", tr)
             \o AttrList("bottomLeft", bl) \o AttrList("bottomRight", br)]
TopLeftValues == {None, Some(<<"1", "1">>), Some(<<"x", "0">>)}
TopRightValues == {None, Some(<<"1", "0">>), Some(<<"0", "1">>)}
BottomLeftValues == {None, Some(<<"0", "1">>)}
BottomRightValues == {None, Some(<<"1", "1">>), Some(<<"1">>)}
DescriptorLines ==
  {CellLine(tl, tr, bl, br) : tl \in TopLeftValues, tr \in TopRightValues,
                              bl \in BottomLeftValues, br \in BottomRightValues}
  \cup {[cell |-> TRUE,
         attrs |-> <<Attr("topRight", <<"0", "0">>), Attr("topRight", <<"1", "1">>),
                     Attr("bottomLeft", <<"1", "1">>),
                     Attr("bottomRight", <<"1", "1">>)>>],
        [cell |-> FALSE, attrs |-> <<>>],
        [cell |-> FALSE,
         attrs |-> <<Attr("topLeft", <<"0", "0">>), Attr("topRight", <<"1", "0">>),
                     Attr("bottomLeft", <<"0", "1">>),
                     Attr("bottomRight", <<"1", "1">>)>>]}
Descriptors == UNION {[1..k -> DescriptorLines] : k \in 0..MaxLines}

InitSprite ==
  /\ sp_doc \in Descriptors
  /\ sp_next = 1
  /\ sp_cells = <<>>
  /\ sp_pc = "lines"
  /\ InitBatchIdle
  /\ InitPathIdle
  /\ InitSeqIdle
  /\ InitSheetIdle
  /\ InitModeIdle

\* One iteration of the loop over the lines.
FromXmlLine ==
  /\ sp_pc = "lines"
  /\ sp_next <= Len(sp_doc)
  /\ LET line == sp_doc[sp_next]
         r == ParseCellLine(line)
     IN IF ~line.cell
          THEN /\ sp_next' = sp_next + 1
               /\ UNCHANGED <<sp_cells, sp_pc>>
        ELSE IF r.err
          THEN /\ sp_pc' = "err"
               /\ UNCHANGED <<sp_next, sp_cells>>
        ELSE /\ sp_next' = sp_next + 1
             /\ sp_cells' = IF r.cell = None THEN sp_cells
                            ELSE Append(sp_cells, r.cell[1])
             /\ UNCHANGED sp_pc
  /\ UNCHANGED sp_doc
  /\ UNCHANGED <<batchVars, pathVars, seqVars, sheetVars, modeVars>>

\* Ok(SpriteSheet { cells })
FromXmlReturn ==
  /\ sp_pc = "lines"
  /\ sp_next > Len(sp_doc)
  /\ sp_pc' = "ok"
  /\ UNCHANGED <<sp_doc, sp_next, sp_cells>>
  /\ UNCHANGED <<batchVars, pathVars, seqVars, sheetVars, modeVars>>

NextSprite == FromXmlLine \/ FromXmlReturn

SpecSprite == InitSprite /\ [][NextSprite]_vars

-----------------------------------------------------------------------------
(* create_animation_from_sprite_sheet and create_webp_animation_with_ffmpeg *)

\* Pixels are <<r, g, b, a>>; a frame is a record of how many pixels of each
\* kind it holds.
PixelKinds == { <<255, 255, 255, 9>>, <<9, 9, 9, 255>>,
                <<9, 9, 10, 255>>, <<255, 255, 255, 10>> }

RECURSIVE CountPixels(_, _)
CountPixels(frame, kinds) ==
  IF kinds = {} THEN 0
  ELSE LET k == CHOOSE x \in kinds : TRUE IN
       frame[k] + CountPixels(frame, kinds \ {k})

TotalPixels(frame) == CountPixels(frame, PixelKinds)

IsTransparentPixel(p) == p[4] < ChannelThreshold
IsBlackPixel(p) ==
  /\ ~IsTransparentPixel(p)
  /\ p[1] < ChannelThreshold /\ p[2] < ChannelThreshold /\ p[3] < ChannelThreshold

EmptyPixels(frame) ==
  CountPixels(frame, {p \in PixelKinds : IsTransparentPixel(p)})
  + CountPixels(frame, {p \in PixelKinds : IsBlackPixel(p)})

\* (empty_pixels as f32 / total_pixels as f32) > 0.95: the f32 nearest to
\* 0.95 is F32_0_95 / 2^24, and the rounded quotient exceeds it exactly when
\* empty / total >= (F32_0_95 + 1/2) / 2^24.
IsFrameMostlyBlack_AtLeast(frame) ==
  EmptyPixels(frame) * 100 >= 95 * TotalPixels(frame)
IsFrameMostlyBlack(frame) ==
  EmptyPixels(frame) * (2 ^ 25) >= (2 * F32_0_95 + 1) * TotalPixels(frame)

\* frames.len() == 24 && is_frame_mostly_black(&frames[23]) => frames.pop()
DropBlankFrame(frames, last_frame) ==
  IF Len(frames) = BlankFrameCount /\ IsFrameMostlyBlack(last_frame)
    THEN SubSeq(frames, 1, Len(frames) - 1)
    ELSE frames

\* The frame encoded by the static fallback.
FallbackFrames_Last(frames) == <<frames[Len(frames)]>>
FallbackFrames(frames) == <<frames[1]>>

\* create_webp_animation_with_ffmpeg, where the environment decides whether
\* the temporary frames can be written (tmp_ok), whether ffmpeg runs and
\* exits with 0 ("ok"), exits non-zero ("nonzero") or cannot be launched
\* ("notfound"), and whether output_path can be written (write_ok).
CreateWebpAnimationWithFfmpeg(frames, tmp_ok, encoder, write_ok) ==
  IF frames = <<>> THEN
    [ret |-> "Err", error |-> "NoFrames", kind |-> "none", written |-> <<>>]
  ELSE IF ~tmp_ok THEN
    [ret |-> "Err", error |-> "Io", kind |-> "none", written |-> <<>>]
  ELSE IF encoder = "ok" THEN
    [ret |-> "Ok", error |-> "none", kind |-> "animation", written |-> frames]
  ELSE IF write_ok THEN
    [ret |-> "Ok", error |-> "none", kind |-> "static",
     written |-> FallbackFrames(frames)]
  ELSE
    [ret |-> "Err", error |-> "Io", kind |-> "none", written |-> <<>>]

Encoders == {"ok", "nonzero", "notfound"}
AnimationFormats == {"webp", "gif"}

FrameCounts == {0, 1} \cup ((MaxFrames - 2)..MaxFrames)
FramesOfSize(n) ==
  {f \in [PixelKinds -> 0..n] : TotalPixels(f) = n}
LastFrames == FramesOfSize(1) \cup FramesOfSize(MaxPixels)
NoFrame == [p \in PixelKinds |-> 0]

NoSheetInput ==
  [format |-> "none", extracted |-> 0, last_frame |-> NoFrame,
   tmp_ok |-> FALSE, encoder |-> "none", write_ok |-> FALSE]
NoSheetOutput ==
  [ret |-> "none", error |-> "none", kind |-> "none", written |-> <<>>]

InitSheet ==
  /\ \E format \in AnimationFormats :
       an_in = [NoSheetInput EXCEPT !.format = format]
  /\ an_frames = <<>>
  /\ an_out = NoSheetOutput
  /\ an_pc = "load"
  /\ InitBatchIdle
  /\ InitPathIdle
  /\ InitSeqIdle
  /\ InitSpriteIdle
  /\ InitModeIdle

\* SpriteSheet::from_xml_file: reading or parsing the descriptor may fail.
LoadSpriteSheet ==
  /\ an_pc = "load"
  /\ \E r \in {"ok", "ReadErr", "ParseErr"} :
       IF r = "ok"
         THEN an_pc' = "texture" /\ UNCHANGED an_out
         ELSE an_pc' = "err" /\ an_out' = [NoSheetOutput EXCEPT !.ret = "Err", !.error = r]
  /\ UNCHANGED <<an_in, an_frames>>
  /\ UNCHANGED <<batchVars, pathVars, seqVars, spriteVars, modeVars>>

\* image::open of the texture may fail.
LoadTexture ==
  /\ an_pc = "texture"
  /\ \E ok \in BOOLEAN :
       IF ok
         THEN an_pc' = "extract" /\ UNCHANGED an_out
         ELSE an_pc' = "err"
              /\ an_out' = [NoSheetOutput EXCEPT !.ret = "Err", !.error = "LoadErr"]
  /\ UNCHANGED <<an_in, an_frames>>
  /\ UNCHANGED <<batchVars, pathVars, seqVars, spriteVars, modeVars>>

\* extract_frames returns some number of frames; last_frame is the content
\* of the last of them.
ExtractFrames ==
  /\ an_pc = "extract"
  /\ \E n \in FrameCounts, last \in LastFrames :
       /\ an_frames' = [i \in 1..n |-> i]
       /\ an_in' = [an_in EXCEPT !.extracted = n,
                                 !.last_frame = IF n = 0 THEN NoFrame ELSE last]
  /\ an_pc' = "extracted"
  /\ UNCHANGED an_out
  /\ UNCHANGED <<batchVars, pathVars, seqVars, spriteVars, modeVars>>

\* The trailing black frame rule.
PopBlankFrame ==
  /\ an_pc = "extracted"
  /\ an_frames' = DropBlankFrame(an_frames, an_in.last_frame)
  /\ an_pc' = "assemble"
  /\ UNCHANGED <<an_in, an_out>>
  /\ UNCHANGED <<batchVars, pathVars, seqVars, spriteVars, modeVars>>

\* match format: the assembler for "webp", an error for anything else.
AssembleAnimation ==
  /\ an_pc = "assemble"
  /\ IF an_in.format # "webp"
       THEN /\ an_out' = [NoSheetOutput EXCEPT !.ret = "Err", !.error = "Format"]
            /\ UNCHANGED an_in
       ELSE \E tmp_ok \in BOOLEAN, encoder \in Encoders, write_ok \in BOOLEAN :
              /\ an_in' = [an_in EXCEPT !.tmp_ok = tmp_ok, !.encoder = encoder,
                                        !.write_ok = write_ok]
              /\ an_out' = CreateWebpAnimationWithFfmpeg(an_frames, tmp_ok,
                                                         encoder, write_ok)
  /\ an_pc' = IF an_out'.ret = "Ok" THEN "ok" ELSE "err"
  /\ UNCHANGED an_frames
  /\ UNCHANGED <<batchVars, pathVars, seqVars, spriteVars, modeVars>>

NextSheet ==
  LoadSpriteSheet \/ LoadTexture \/ ExtractFrames \/ PopBlankFrame \/ AssembleAnimation

SpecSheet == InitSheet /\ [][NextSheet]_vars

-----------------------------------------------------------------------------
(* handle_animation_mode *)

\* What the environment holds for one item: "ok", or the step that fails.
SpriteFates == {"ok", "ReadErr", "ParseErr", "LoadErr", "NoFrames", "Io"}
SequenceFates == {"ok", "ConvertErr", "LoadErr", "Io"}

\* create_animation_from_sprite_sheet(...) for one sprite sheet: the
\* descriptor and the texture are loaded before the format is matched, the
\* assembler runs after it.
ProcessSpriteSheet(fate, format) ==
  IF fate \in {"ReadErr", "ParseErr", "LoadErr"} THEN "Err"
  ELSE IF format # "webp" THEN "Err"
  ELSE IF fate \in {"NoFrames", "Io"} THEN "Err"
  ELSE "Ok"

\* The body of the loop over image sequences: DDS frames are converted
\* first, a format other than "webp" skips the sequence, and
\* create_webp_animation loads the images and assembles them.
ProcessSequence(fate, format) ==
  IF fate = "ConvertErr" THEN "Err"
  ELSE IF format # "webp" THEN "Skipped"
  ELSE IF fate \in {"LoadErr", "Io"} THEN "Err"
  ELSE "Ok"

ProcessItem(kind, fate, format) ==
  IF kind = "sprites" THEN ProcessSpriteSheet(fate, format)
  ELSE ProcessSequence(fate, format)

SpriteItemLists == UNION {[1..k -> SpriteFates] : k \in 1..MaxItems}
SequenceItemLists == UNION {[1..k -> SequenceFates] : k \in 0..MaxItems}

InitMode ==
  /\ \E format \in AnimationFormats :
       \/ \E items \in SpriteItemLists :
            am_in = [kind |-> "sprites", items |-> items, format |-> format]
       \/ \E items \in SequenceItemLists :
            am_in = [kind |-> "sequences", items |-> items, format |-> format]
  /\ am_next = 1
  /\ am_log = <<>>
  /\ am_pc = "start"
  /\ InitBatchIdle
  /\ InitPathIdle
  /\ InitSeqIdle
  /\ InitSpriteIdle
  /\ InitSheetIdle

\* Nothing found: Ok(()).  Otherwise create_dir_all of the output directory,
\* which may fail.
EnterLoop ==
  /\ am_pc = "start"
  /\ IF am_in.items = <<>>
       THEN am_pc' = "ok"
       ELSE \E mkdir_ok \in BOOLEAN : am_pc' = IF mkdir_ok THEN "loop" ELSE "err"
  /\ UNCHANGED <<am_in, am_next, am_log>>
  /\ UNCHANGED <<batchVars, pathVars, seqVars, spriteVars, sheetVars>>

\* One iteration of the loop; an Err leaves the function through `?`.
LoopItem ==
  /\ am_pc = "loop"
  /\ am_next <= Len(am_in.items)
  /\ LET r == ProcessItem(am_in.kind, am_in.items[am_next], am_in.format) IN
     /\ am_log' = Append(am_log, r)
     /\ IF r = "Err"
          THEN am_pc' = "err" /\ UNCHANGED am_next
          ELSE am_next' = am_next + 1 /\ UNCHANGED am_pc
  /\ UNCHANGED am_in
  /\ UNCHANGED <<batchVars, pathVars, seqVars, spriteVars, sheetVars>>

\* After the last item: Ok(()).
LoopReturn ==
  /\ am_pc = "loop"
  /\ am_next > Len(am_in.items)
  /\ am_pc' = "ok"
  /\ UNCHANGED <<am_in, am_next, am_log>>
  /\ UNCHANGED <<batchVars, pathVars, seqVars, spriteVars, sheetVars>>

NextMode == EnterLoop \/ LoopItem \/ LoopReturn

SpecMode == InitMode /\ [][NextMode]_vars

-----------------------------------------------------------------------------
(* Properties *)

InFlight == {i \in 1..nfiles : tasks[i] = "running"}
Finished == {i \in 1..nfiles : tasks[i] = "finished"}

\* C1: in every reachable state of a batch run the number of conversions in
\* flight (process_file started and not yet returned) is at most the
\* concurrency limit.
C1_AtMostLimitInFlight == Cardinality(InFlight) <= concurrency

\* C1 witness: the limit is reached while further files wait for a permit.
C1_Witness ==
  /\ pc = "spawn"
  /\ concurrency = 2
  /\ Cardinality(InFlight) = concurrency
  /\ next_file <= nfiles

\* C2: when continue_on_error is false, once a conversion has failed no
\* further file is admitted by the gate.
C2_NoAdmissionAfterFailure ==
  [][(~continue_on_error /\ first_err # 0) => next_file' = next_file]_vars

\* C3: when continue_on_error is true and the run completes, every conversion
\* whose tool exited non-zero is recorded as failed and counted in the failed
\* tally.
C3_ToolFailuresCounted ==
  (continue_on_error /\ pc = "ok") =>
    /\ \A i \in 1..nfiles :
         outcome[i].kind = "ToolFailed" => outcome[i].ret = "Err"
    /\ error_count >=
         Cardinality({i \in 1..nfiles : outcome[i].kind = "ToolFailed"})

\* C4 as claimed: when continue_on_error is false and a conversion fails the
\* run never ends with success, and the error returned is that of the first
\* conversion to fail in time.
C4_ReturnsFirstFailureInTime ==
  /\ (~continue_on_error /\ pc = "ok") =>
       \A i \in 1..nfiles : outcome[i].ret = "Ok"
  /\ pc = "failed" => run_err = first_err

\* C4 amended: when continue_on_error is false and a conversion fails the run
\* never ends with success, and the error returned is that of the failed
\* conversion that comes first in the file list: every file before it
\* succeeded.
C4_ReturnsFirstFailureInFileOrder ==
  /\ (~continue_on_error /\ pc = "ok") =>
       \A i \in 1..nfiles : outcome[i].ret = "Ok"
  /\ pc = "failed" =>
       /\ ~continue_on_error
       /\ run_err \in 1..nfiles
       /\ outcome[run_err].ret = "Err"
       /\ \A j \in 1..(run_err - 1) : outcome[j].ret = "Ok"

\* C4 witness: the run failed with the error of a file that was not the
\* first to fail in time.
C4_Witness == pc = "failed" /\ first_err # 0 /\ run_err # first_err

\* C5: a file below 128 bytes is skipped, without the tool being invoked or
\* an output directory being created, and it is not a failure when its
\* metadata could be read; the tool is invoked only for files of 128 bytes or
\* more, and for every such file whose metadata was read, whose output
\* directory was created and for which the tool could be launched.
C5_SmallFilesSkipped ==
  \A i \in Finished :
    LET o == outcome[i] IN
    /\ o.size < 128 => ~o.tool_invoked /\ ~o.dir_created
    /\ (o.size < 128 /\ o.kind # "MetaErr") => o.kind = "Skipped" /\ o.ret = "Ok"
    /\ o.tool_invoked => o.size >= 128
    /\ (o.size >= 128 /\ o.kind \notin {"MetaErr", "MkdirErr", "LaunchErr"})
         => o.tool_invoked /\ o.dir_created

\* C5 witness: a file of 127 bytes was skipped and a file of 128 bytes was
\* passed to the tool.
C5_Witness ==
  \E i, j \in Finished :
    /\ outcome[i].size = 127 /\ outcome[i].kind = "Skipped"
    /\ outcome[j].size = 128 /\ outcome[j].tool_invoked

\* C6: the resolved path lies under output_root: the components of
\* output_root are a prefix of the result.
C6_UnderOutputRoot ==
  pr_pc = "done" => IsPrefixOf(pr_in.output_dir, pr_out)

C7_Example ==
  [input_path |-> <<Str_a, Str_b, Str_c, Str_tex_dds>>, input_dir |-> <<Str_a>>,
   output_dir |-> <<Str_out>>, strip_segments |-> 5, format |-> Str_png]

RelativeComponents(in) ==
  IF IsPrefixOf(in.input_dir, in.input_path)
    THEN SubSeq(in.input_path, Len(in.input_dir) + 1, Len(in.input_path))
    ELSE in.input_path

\* C7 as claimed: a/b/c/tex.dds with root a, strip 5, output root out and
\* format png resolves to out/tex.png.
C7_ExampleGivesFileNameOnly ==
  (pr_pc = "done" /\ pr_in = C7_Example) => pr_out = <<Str_out, Str_tex_png>>

\* C7 amended: stripping at least as many segments as the relative path has
\* components keeps every component, as strip_segments 0 does; the example
\* resolves to out/b/c/tex.png.
C7_OverStripKeepsAll ==
  pr_pc = "done" =>
    /\ pr_in = C7_Example => pr_out = <<Str_out, Str_b, Str_c, Str_tex_png>>
    /\ pr_in.strip_segments >= Len(RelativeComponents(pr_in)) =>
         pr_out = CalculateOutputPath(pr_in.input_path, pr_in.input_dir,
                                      pr_in.output_dir, 0, pr_in.format)

\* C7 witness: the example has been resolved.
C7_Witness == pr_pc = "done" /\ pr_in = C7_Example

RECURSIVE StripTrailingDigits(_)
StripTrailingDigits(s) ==
  IF s # <<>> /\ IsAsciiDigit(s[Len(s)])
    THEN StripTrailingDigits(SubSeq(s, 1, Len(s) - 1))
    ELSE s

\* The base name as the claim states it.
ClaimedBaseName(stem) ==
  LET pos == LastIndexOf(stem, "_") IN
  IF pos # 0 /\ AllDigits(SubSeq(stem, pos + 1, Len(stem)))
    THEN SubSeq(stem, 1, pos - 1)
    ELSE StripTrailingDigits(stem)

\* C8: the base name under which a file is grouped is the prefix before the
\* last underscore when the text after it is all digits, and otherwise the
\* stem without its trailing digits.
C8_BaseNameRule ==
  \A b \in DOMAIN groups :
    \A k \in 1..Len(groups[b]) : b = ClaimedBaseName(FileStem(groups[b][k]))

C10_ExtensionIgnoresCase ==
  (sq_pc = "group" /\ DOMAIN groups = {}) =>
    Range(files) = {f \in dir : IsCandidate_IgnoreCase(f)}

\* A coordinate value with exactly two numeric fields.
WellFormedValue(v) == Len(v) = 2 /\ v[1] \in {"0", "1"} /\ v[2] \in {"0", "1"}
WellFormedDoc(doc) ==
  \A i \in 1..Len(doc) : \A k \in 1..Len(doc[i].attrs) :
    WellFormedValue(doc[i].attrs[k].value)
NumberOf(field) == IF field = "0" THEN 0 ELSE 1
Present(line, n) == \E k \in 1..Len(line.attrs) : line.attrs[k].name = n
\* The pair written in the first attribute of that name.
Corner(line, n) ==
  LET k == CHOOSE k \in 1..Len(line.attrs) :
             /\ line.attrs[k].name = n
             /\ \A j \in 1..(k - 1) : line.attrs[j].name # n
  IN <<NumberOf(line.attrs[k].value[1]), NumberOf(line.attrs[k].value[2])>>
\* The cells the claim expects for the lines of a well-formed descriptor.
RECURSIVE ClaimedCells(_)
ClaimedCells(doc) ==
  IF doc = <<>> THEN <<>>
  ELSE LET line == doc[Len(doc)]
           before == ClaimedCells(SubSeq(doc, 1, Len(doc) - 1))
       IN IF /\ line.cell
             /\ Present(line, "topRight")
             /\ Present(line, "bottomLeft")
             /\ Present(line, "bottomRight")
            THEN Append(before,
                   [top_left |-> IF Present(line, "topLeft")
                                   THEN Corner(line, "topLeft")
                                   ELSE <<Corner(line, "bottomLeft")[1],
                                          Corner(line, "topRight")[2]>>,
                    top_right |-> Corner(line, "topRight"),
                    bottom_left |-> Corner(line, "bottomLeft"),
                    bottom_right |-> Corner(line, "bottomRight")])
            ELSE before

\* C11: parsing a descriptor whose coordinate pairs are all well-formed
\* raises no error and emits, in document order, one cell per cell-record
\* line whose four corners are resolved, a missing topLeft being
\* (bottomLeft.x, topRight.y); any other line emits nothing.
C11_CellsOfResolvedLines ==
  (sp_pc # "idle" /\ WellFormedDoc(sp_doc)) =>
    /\ sp_pc # "err"
    /\ sp_cells = ClaimedCells(SubSeq(sp_doc, 1, sp_next - 1))

\* C11 witness: a record without bottomRight emitted no cell and the next
\* record, without topLeft, emitted a cell with topLeft (0, 0).
C11_Witness ==
  /\ sp_pc = "ok"
  /\ sp_doc = <<CellLine(Some(<<"1", "1">>), Some(<<"1", "0">>),
                         Some(<<"0", "1">>), None),
                CellLine(None, Some(<<"1", "0">>), Some(<<"0", "1">>),
                         Some(<<"1", "1">>))>>
  /\ sp_cells = <<[top_left |-> <<0, 0>>, top_right |-> <<1, 0>>,
                   bottom_left |-> <<0, 1>>, bottom_right |-> <<1, 1>>]>>

\* C12 as claimed: with exactly 24 extracted frames of which the last has at
\* least 95% near-black or near-transparent pixels the last frame is dropped
\* and 23 frames are used; otherwise the frame list is used unchanged.
C12_DropsAtLeast95Percent ==
  an_pc \in {"assemble", "ok", "err"} =>
    IF /\ an_in.extracted = 24
       /\ EmptyPixels(an_in.last_frame) * 100 >= 95 * TotalPixels(an_in.last_frame)
      THEN an_frames = [i \in 1..23 |-> i]
      ELSE an_frames = [i \in 1..an_in.extracted |-> i]

\* C12 amended: with exactly 24 extracted frames of which the last has more
\* than 95% near-black or near-transparent pixels the last frame is dropped
\* and 23 frames are used; at 95% or less, or with any other number of
\* frames, the frame list is used unchanged.
C12_DropsAbove95Percent ==
  an_pc \in {"assemble", "ok", "err"} =>
    IF /\ an_in.extracted = 24
       /\ EmptyPixels(an_in.last_frame) * 100 > 95 * TotalPixels(an_in.last_frame)
      THEN an_frames = [i \in 1..23 |-> i]
      ELSE an_frames = [i \in 1..an_in.extracted |-> i]

\* C12 witness: 24 frames were extracted and the last one was dropped.
C12_Witness ==
  an_pc = "assemble" /\ an_in.extracted = 24 /\ Len(an_frames) = 23

\* C13: for a non-empty frame list whose temporary frames were written, when
\* the encoder cannot be launched or exits non-zero the assembler writes
\* frame 0 alone as a static image and returns Ok, as it does for a full
\* animation, provided output_path can be written; the only error it can
\* return then is that write's I/O error.
C13_EncoderFailureFallsBack ==
  (an_pc \in {"ok", "err"} /\ an_in.encoder \in {"nonzero", "notfound"}
     /\ an_frames # <<>> /\ an_in.tmp_ok) =>
    /\ an_in.write_ok =>
         /\ an_pc = "ok"
         /\ an_out.ret = "Ok"
         /\ an_out.kind = "static"
         /\ an_out.written = <<1>>
    /\ ~an_in.write_ok => an_out.ret = "Err" /\ an_out.error = "Io"

\* C13 witness: ffmpeg was not found for a list of several frames and the
\* call returned Ok with the first frame written.
C13_Witness ==
  /\ an_pc = "ok"
  /\ an_in.encoder = "notfound"
  /\ Len(an_frames) > 1
  /\ an_out.kind = "static"

\* C14: in animation mode, once the loop over the items has been entered,
\* the run ends only after every sprite sheet or sequence has been
\* processed, whatever errors single items ran into.
C14_ItemErrorsIsolated ==
  (am_pc \in {"ok", "err"} /\ am_log # <<>>) => Len(am_log) = Len(am_in.items)

\* Permits held by the tasks that were spawned and have not ended.
PermitsHeld == Cardinality({i \in 1..nfiles : tasks[i] \in {"spawned", "running"}})

\* C15: available permits plus permits held equal the concurrency limit in
\* every reachable state, and once every spawned conversion has ended,
\* whether with Ok or with Err, all permits are available again.
C15_PermitsConserved ==
  /\ permits + PermitsHeld = concurrency
  /\ PermitsHeld = 0 => permits = concurrency

C15_Witness ==
  /\ nfiles > concurrency
  /\ \A i \in 1..nfiles : tasks[i] = "finished"
  /\ \E i \in 1..nfiles : outcome[i].ret = "Err"
  /\ \E i \in 1..nfiles : outcome[i].ret = "Ok"
  /\ permits = concurrency

Terminated == pc \in {"ok", "failed"}

\* C16: when every conversion that starts eventually returns, the batch run
\* eventually terminates, and with continue_on_error it terminates only
\* after every file has been attempted once and the progress counter equals
\* the number of files.
C16_BatchTerminates ==
  /\ <>Terminated
  /\ [](Terminated /\ continue_on_error =>
          /\ pc = "ok"
          /\ \A i \in 1..nfiles : tasks[i] = "finished"
          /\ progress = nfiles)

C16_Witness ==
  /\ pc = "ok"
  /\ continue_on_error
  /\ nfiles > concurrency
  /\ error_count > 0
  /\ progress = nfiles

====
